---- MODULE Spec2Model ----
(***************************************************************************)
(* Area-weighted raster-to-polygon aggregation of the R4C-Cesium-Viewer    *)
(* ETL scripts: add_heat_data.calculate_heat_exp,                          *)
(* calculate_ndvi.calculate_average_ndvi and                               *)
(* heat_exposure/calculate_and_insert.calculate_heat_exp.                  *)
(*                                                                         *)
(* Coordinates are integers in half-cell units: one raster cell is a 2x2   *)
(* square, so that a polygon can cover a quarter of a cell.  Polygons are  *)
(* (multi-part) axis-aligned rectangles, for which shapely's intersection  *)
(* area is the product of the overlap lengths.  Areas and sums are exact   *)
(* integers and a mean is the reduced fraction num/den.                    *)
(*                                                                         *)
(* Each script is a program of its own: a specification runs one of them   *)
(* and leaves the variables of the others at their idle values.            *)
(***************************************************************************)
EXTENDS Integers, Sequences, FiniteSets, TLC

\* Largest number of polygons in one input feature collection.
MaxPolygons == 2

VARIABLES
    variant,              \* which script runs
    nodata,               \* src.nodata: <<>> for None, <<v>> for the value v
    band,                 \* band 1 of src: (row, col) -> sample
    polygons,             \* the geometries of gdf, in row order
    idx,                  \* position of the "for idx, geom in gdf.iterrows()" loop
    total_value,          \* accumulator of the polygon processed last
    total_area,           \* accumulator of the polygon processed last
    weighted_avg_values,  \* the result list
    pc,                   \* "loop", "returned" (column attached) or "raised"
    transform,            \* src.transform, the affine transform of the raster
    cell_row,             \* row of the cell whose polygon is built
    cell_col,             \* col of the cell whose polygon is built
    cell_geom_area,       \* cell_geom.area of that cell, -1 before it is built
    insert_variant,       \* which script's insert runs
    buildings_gdf,        \* the rows handed to the insert
    heat_metadata,        \* /tmp/heat_metadata.json: whether it exists, its entries
    date_str,             \* the date of the request
    env_temps,            \* MIN_TEMP_K / MAX_TEMP_K of .env, or the typed-in range
    db_fault,             \* the step of the database session that fails, if any
    converted,            \* the calls of the temperature converter so far
    data_to_insert,       \* the rows prepared for the batch insert
    db_rows,              \* the rows of committed transactions
    insert_result,        \* how the insert ended and what it returned
    metadata_blob,        \* Thermal/heat_metadata.json in the bucket
    norm_date,            \* the date of the last normalisation request
    thermal_band,         \* the clipped band of that request, hundredths of a kelvin
    actual_min,           \* the minimum of its valid pixels
    actual_max,           \* the maximum of its valid pixels
    normalized_band,      \* the band written to the normalised raster
    response_status,      \* the HTTP status of the last request, 0 before any
    last_saved,           \* per date, the range of the latest save_heat_metadata call
    requests,             \* the number of normalisation requests so far
    run,                  \* 1 in the first call of the aggregation, 2 in a repeated call
    first_run,            \* how the first call ended and the list it built
    job,                  \* which entry point is invoked
    wfs_response,         \* what the request to the upstream server yields
    fetched,              \* what the fetch function returned
    job_fault,            \* the step after the fetch that fails, if any
    existing_keys,        \* the vtj_prt values of the rows in the buildings table
    committed,            \* the statements of the job's committed transaction
    attempted,            \* whether the job went on to process features
    job_response,         \* how the entry point ended
    grid_len,             \* the number of grid cells of the source grid
    batch_size,           \* 'batch_size' of the request
    layers,               \* the number of names in 'wfs_layers'
    crs_check,            \* what GeoDataFrame(data, crs=..) does without a geometry column
    lc_index,             \* the index of the next grid cell
    newly_created_features, \* the features waiting for the next flush
    total_inserted,       \* the running total of inserted features
    handed,               \* the batches handed to insert_data_to_sql, with their outcome
    created,              \* the number of features created so far
    lc_rows,              \* the rows of the landcover table committed by the run
    lc_response,          \* the response of adaptation_landcover
    insert_values,        \* the rows bound to the bulk INSERT
    update_values,        \* the rows bound to the bulk UPDATE
    reported              \* the counts update_google_sql returned

\* The variables of the polygon loops, and those of the single cell polygon.
aggVars == <<variant, nodata, band, polygons, idx, total_value, total_area,
             weighted_avg_values, pc>>
cellVars == <<cell_row, cell_col, cell_geom_area>>
insertVars == <<insert_variant, buildings_gdf, heat_metadata, date_str, env_temps,
                db_fault, converted, data_to_insert, db_rows, insert_result>>

normVars == <<metadata_blob, norm_date, thermal_band, actual_min, actual_max,
              normalized_band, response_status, last_saved, requests>>

twiceVars == <<run, first_run>>

jobVars == <<job, wfs_response, fetched, job_fault, existing_keys, committed,
             attempted, job_response>>

lcVars == <<grid_len, batch_size, layers, crs_check, lc_index, newly_created_features,
            total_inserted, handed, created, lc_rows, lc_response>>
posnoVars == <<insert_values, update_values, reported>>

vars == <<aggVars, transform, cellVars, insertVars, normVars, twiceVars, jobVars, lcVars,
          posnoVars>>

Abs(a) == IF a < 0 THEN -a ELSE a

Min(a, b) == IF a < b THEN a ELSE b
Max(a, b) == IF a > b THEN a ELSE b

RECURSIVE GCD(_, _)
GCD(a, b) == IF b = 0 THEN a ELSE GCD(b, a % b)

----------------------------------------------------------------------------
(* The raster.                                                              *)

\* src.height and src.width of the 2x2 raster of the concrete scenario.
src_shape == [height |-> 2, width |-> 2]

\* The transform of the 2x2 raster: x = a*col + b*row + c, y = d*col + e*row + f.
north_up == [a |-> 2, b |-> 0, c |-> 0, d |-> 0, e |-> 2, f |-> 0]

\* src.transform
src_transform == transform

RasterCells == (0 .. src_shape.height - 1) \X (0 .. src_shape.width - 1)

\* Samples a cell may hold: -9999 (the sentinel when src.nodata is -9999, a
\* plain negative sample otherwise), zero, and two positive values.
Samples == {-9999, 0, 10, 20}

\* src.nodata of the rasters considered.
NodataChoices == {<< -9999 >>, << 0 >>, << >>}

----------------------------------------------------------------------------
(* numpy.ma scalars: a masked element reads as the constant numpy.ma.masked,*)
(* whose data is 0 and whose mask is set.                                   *)

ma_value(v) == [data |-> v, mask |-> FALSE]
ma_masked == [data |-> 0, mask |-> TRUE]

\* bool(pixel_value == nodata): a comparison with masked is masked, which is falsy.
ma_eq_nodata(pixel_value, nd) ==
    IF pixel_value.mask THEN FALSE
    ELSE nd # << >> /\ pixel_value.data = nd[1]

\* bool(pixel_value < 0)
ma_lt_zero(pixel_value) ==
    IF pixel_value.mask THEN FALSE ELSE pixel_value.data < 0

\* bool(pixel_value > 0)
ma_gt_zero(pixel_value) ==
    IF pixel_value.mask THEN FALSE ELSE pixel_value.data > 0

\* pixel_value * intersection_area
ma_mul(pixel_value, area) ==
    IF pixel_value.mask THEN ma_masked ELSE ma_value(pixel_value.data * area)

\* total_value + x
ma_add(x, y) ==
    IF x.mask \/ y.mask THEN ma_masked ELSE ma_value(x.data + y.data)

----------------------------------------------------------------------------
(* Geometry.                                                                *)

Rect(x0, x1, y0, y1) == [x0 |-> x0, x1 |-> x1, y0 |-> y0, y1 |-> y1]

\* A polygon record: its parts, and whether GEOS accepts it.
Poly(parts, valid) == [parts |-> parts, valid |-> valid]

Full      == Poly({Rect(0, 4, 0, 4)}, TRUE)
Quarter   == Poly({Rect(0, 1, 0, 1)}, TRUE)
Partial   == Poly({Rect(0, 3, 0, 1)}, TRUE)
Diagonal  == Poly({Rect(0, 1, 0, 1), Rect(3, 4, 3, 4)}, TRUE)
Outside   == Poly({Rect(6, 8, 0, 2)}, TRUE)
Malformed == Poly({Rect(0, 4, 0, 4)}, FALSE)

Shapes == {Full, Quarter, Partial, Diagonal, Outside, Malformed}

\* polygon.bounds
bounds(polygon) ==
    LET xs0 == {r.x0 : r \in polygon.parts}
        xs1 == {r.x1 : r \in polygon.parts}
        ys0 == {r.y0 : r \in polygon.parts}
        ys1 == {r.y1 : r \in polygon.parts}
    IN Rect(CHOOSE m \in xs0 : \A x \in xs0 : m <= x,
            CHOOSE m \in xs1 : \A x \in xs1 : m >= x,
            CHOOSE m \in ys0 : \A y \in ys0 : m <= y,
            CHOOSE m \in ys1 : \A y \in ys1 : m >= y)

\* out_transform * (col, row)
transform_mul(t, col, row) ==
    [x |-> t.a * col + t.b * row + t.c, y |-> t.d * col + t.e * row + t.f]

\* Polygon([top_left, top_right, bottom_right, bottom_left]) of a cell; the
\* transform has no shear here, so the cell is the rectangle of its corners.
cell_geom(t, row, col) ==
    LET top_left     == transform_mul(t, col, row)
        top_right    == transform_mul(t, col + 1, row)
        bottom_left  == transform_mul(t, col, row + 1)
        bottom_right == transform_mul(t, col + 1, row + 1)
    IN Rect(Min(top_left.x, bottom_right.x), Max(top_left.x, bottom_right.x),
            Min(top_left.y, bottom_right.y), Max(top_left.y, bottom_right.y))

\* intersection.is_empty for two rectangles (closed sets: touching is not empty)
rect_disjoint(r, s) ==
    \/ Max(r.x0, s.x0) > Min(r.x1, s.x1)
    \/ Max(r.y0, s.y0) > Min(r.y1, s.y1)

\* area of the intersection of two rectangles
rect_overlap(r, s) ==
    Max(0, Min(r.x1, s.x1) - Max(r.x0, s.x0))
        * Max(0, Min(r.y1, s.y1) - Max(r.y0, s.y0))

RECURSIVE SumOverlap(_, _)
SumOverlap(parts, cell) ==
    IF parts = {} THEN 0
    ELSE LET r == CHOOSE r \in parts : TRUE
         IN rect_overlap(r, cell) + SumOverlap(parts \ {r}, cell)

\* polygon.intersection(cell_geom): emptiness and area
intersection(polygon, cell) ==
    [is_empty |-> \A r \in polygon.parts : rect_disjoint(r, cell),
     area     |-> SumOverlap(polygon.parts, cell)]

----------------------------------------------------------------------------
(* rasterio.mask.mask(src, [polygon], crop=True, all_touched=True, filled=..) *)

\* The window of the raster that covers the bounds of the polygon.
geometry_window(polygon) ==
    LET b == bounds(polygon)
        t == src_transform
    IN [col_off |-> Max(0, b.x0 \div t.a),
        col_end |-> Min(src_shape.width, (b.x1 + t.a - 1) \div t.a),
        row_off |-> Max(0, b.y0 \div t.e),
        row_end |-> Min(src_shape.height, (b.y1 + t.e - 1) \div t.e)]

\* "is_degenerate" of the affine package: the determinant is 0.
is_degenerate(t) == t.a * t.e - t.b * t.d = 0

\* mask() raises ValueError("Input shapes do not overlap raster.") for an
\* empty window; an invalid geometry makes GEOS raise in the same iteration;
\* the window is computed with the inverse of the dataset's transform, and
\* inverting a degenerate transform raises TransformNotInvertibleError.
mask_raises(polygon) ==
    LET w == geometry_window(polygon)
    IN \/ is_degenerate(src_transform)
       \/ ~polygon.valid
       \/ w.col_off >= w.col_end
       \/ w.row_off >= w.row_end

\* out_image[0] and out_transform.  A cell is masked when the dataset mask
\* marks it (its sample equals src.nodata) or no part of the polygon
\* touches it; filled=True replaces masked cells by the nodata value (0 when
\* src.nodata is None), filled=False leaves them masked.
mask(polygon, nd, b, filled) ==
    LET w == geometry_window(polygon)
        t == src_transform
        fill == IF nd = << >> THEN 0 ELSE nd[1]
        dataset_mask(rc) == nd # << >> /\ b[rc] = nd[1]
        shape_mask(rc) == intersection(polygon, cell_geom(t, rc[1], rc[2])).is_empty
        read(rc) == IF dataset_mask(rc) \/ shape_mask(rc)
                    THEN (IF filled THEN ma_value(fill) ELSE ma_masked)
                    ELSE ma_value(b[rc])
    IN [nrows |-> w.row_end - w.row_off,
        ncols |-> w.col_end - w.col_off,
        out_image |-> [rc \in (0 .. w.row_end - w.row_off - 1)
                              \X (0 .. w.col_end - w.col_off - 1)
                          |-> read(<<w.row_off + rc[1], w.col_off + rc[2]>>)],
        out_transform |-> [t EXCEPT !.c = t.c + t.a * w.col_off,
                                    !.f = t.f + t.e * w.row_off]]

----------------------------------------------------------------------------
(* The cell loops.                                                          *)

\* "if pixel_value == nodata: continue" and "if pixel_value < 0: continue"
ignore_pixel(pixel_value, nd) ==
    ma_eq_nodata(pixel_value, nd) \/ ma_lt_zero(pixel_value)

\* The two nested loops of add_heat_data and calculate_ndvi, in row-major
\* order from cell number k on.
RECURSIVE zonal_cells(_, _, _, _, _, _)
zonal_cells(polygon, nd, img, k, tv, ta) ==
    IF k >= img.nrows * img.ncols
    THEN [total_value |-> tv, total_area |-> ta]
    ELSE LET row == k \div img.ncols
             col == k % img.ncols
             pixel_value == img.out_image[<<row, col>>]
             inter == intersection(polygon, cell_geom(img.out_transform, row, col))
         IN IF ignore_pixel(pixel_value, nd)
            THEN zonal_cells(polygon, nd, img, k + 1, tv, ta)
            ELSE IF ~inter.is_empty
            THEN zonal_cells(polygon, nd, img, k + 1,
                             ma_add(tv, ma_mul(pixel_value, inter.area)),
                             ta + inter.area)
            ELSE zonal_cells(polygon, nd, img, k + 1, tv, ta)

\* geom.geometry.centroid.y, doubled to stay an integer; for the shapes used
\* the centroid lies in the middle of the bounds
centroid_y2(polygon) ==
    LET b == bounds(polygon) IN b.y0 + b.y1

\* An integer stand-in for cos(radians(latitude)) * (40075.017/360)^2 * 1e6:
\* positive, and smaller at higher latitudes.
cos_scaled(latitude2) == 100 - latitude2

\* calculate_cell_area(transform, latitude)
calculate_cell_area(t, latitude2) ==
    LET delta_lat == IF t.e < 0 THEN -t.e ELSE t.e
        delta_lon == t.a
    IN delta_lon * cos_scaled(latitude2) * delta_lat

\* "if pixel_value > 0:  # Valid pixel"
valid_pixel(pixel_value) == ma_gt_zero(pixel_value)

\* The two nested loops of heat_exposure/calculate_and_insert.
RECURSIVE heat_exposure_cells(_, _, _, _, _)
heat_exposure_cells(polygon, img, k, tv, ta) ==
    IF k >= img.nrows * img.ncols
    THEN [total_value |-> tv, total_area |-> ta]
    ELSE LET row == k \div img.ncols
             col == k % img.ncols
             pixel_value == img.out_image[<<row, col>>]
             cell_area == calculate_cell_area(img.out_transform, centroid_y2(polygon))
         IN IF valid_pixel(pixel_value)
            THEN heat_exposure_cells(polygon, img, k + 1,
                                     ma_add(tv, ma_mul(pixel_value, cell_area)),
                                     ta + cell_area)
            ELSE heat_exposure_cells(polygon, img, k + 1, tv, ta)

\* A result: a finite mean num/den in lowest terms, numpy.nan, or numpy.ma.masked.
NaN == [kind |-> "nan", num |-> 0, den |-> 1]
Masked == [kind |-> "masked", num |-> 0, den |-> 1]
Number(num, den) ==
    LET g == GCD(IF num < 0 THEN -num ELSE num, den)
    IN [kind |-> "number", num |-> num \div g, den |-> den \div g]

\* avg_value with 0 in place of numpy.nan
avg_value_zero(tv, ta) ==
    IF ta > 0
    THEN (IF tv.mask THEN Masked ELSE Number(tv.data, ta))
    ELSE Number(0, 1)

\* "if total_area > 0: avg_value = total_value / total_area else: np.nan"
avg_value(tv, ta) ==
    IF ta > 0
    THEN (IF tv.mask THEN Masked ELSE Number(tv.data, ta))
    ELSE NaN

----------------------------------------------------------------------------
(* The polygon loops.                                                       *)

Variants == {"add_heat_data", "calculate_ndvi", "heat_exposure"}

PolygonLists ==
    UNION {[1 .. n -> Shapes] : n \in 0 .. MaxPolygons}

\* No cell polygon is being built.
CellIdle ==
    /\ cell_row = 0
    /\ cell_col = 0
    /\ cell_geom_area = -1

\* No insert runs.
InsertIdle ==
    /\ insert_variant = "none"
    /\ buildings_gdf = << >>
    /\ heat_metadata = [exists |-> FALSE, entries |-> << >>]
    /\ date_str = "none"
    /\ env_temps = [min |-> 0, max |-> 0]
    /\ db_fault = "none"
    /\ converted = << >>
    /\ data_to_insert = << >>
    /\ db_rows = << >>
    /\ insert_result = [kind |-> "pending", count |-> 0]

\* No normalisation request is made.
NormIdle ==
    /\ metadata_blob = [exists |-> FALSE, entries |-> << >>]
    /\ norm_date = "none"
    /\ thermal_band = << >>
    /\ actual_min = 0
    /\ actual_max = 0
    /\ normalized_band = << >>
    /\ response_status = 0
    /\ last_saved = << >>
    /\ requests = 0

\* The aggregation is called once.
TwiceIdle ==
    /\ run = 1
    /\ first_run = [pc |-> "none", weighted_avg_values |-> << >>]

\* No entry point is invoked.
JobIdle ==
    /\ job = "none"
    /\ wfs_response = [kind |-> "none", features |-> << >>]
    /\ fetched = [kind |-> "pending", has_features |-> FALSE, features |-> << >>]
    /\ job_fault = "none"
    /\ existing_keys = {}
    /\ committed = << >>
    /\ attempted = FALSE
    /\ job_response = [kind |-> "pending", body |-> "none"]

\* adaptation_landcover is not invoked.
LcIdle ==
    /\ grid_len = 0
    /\ batch_size = 1
    /\ layers = 0
    /\ crs_check = "none"
    /\ lc_index = 0
    /\ newly_created_features = << >>
    /\ total_inserted = 0
    /\ handed = << >>
    /\ created = 0
    /\ lc_rows = << >>
    /\ lc_response = [kind |-> "idle", status |-> 0, count |-> 0]

\* update_google_sql (by posno) is not called.
PosnoIdle ==
    /\ insert_values = << >>
    /\ update_values = << >>
    /\ reported = [kind |-> "pending", inserted |-> 0, updated |-> 0]

Init ==
    /\ variant \in Variants
    /\ nodata \in NodataChoices
    /\ band \in [RasterCells -> Samples]
    /\ polygons \in PolygonLists
    /\ idx = 1
    /\ total_value = ma_value(0)
    /\ total_area = 0
    /\ weighted_avg_values = << >>
    /\ pc = "loop"
    /\ transform = north_up
    /\ CellIdle
    /\ InsertIdle
    /\ NormIdle
    /\ TwiceIdle
    /\ JobIdle
    /\ LcIdle
    /\ PosnoIdle

\* The accumulators keep what the previous polygon left in them.
carried_accumulators == [total_value |-> total_value, total_area |-> total_area]

\* "total_value = 0" and "total_area = 0" at the top of every iteration
initial_accumulators == [total_value |-> ma_value(0), total_area |-> 0]

\* One iteration of "for idx, geom in gdf.iterrows()" whose accumulators end
\* as acc; an exception of mask() or of the intersection leaves the function.
Iteration(raises, acc) ==
    IF raises
    THEN /\ pc' = "raised"
         /\ UNCHANGED <<idx, total_value, total_area, weighted_avg_values>>
    ELSE /\ total_value' = acc.total_value
         /\ total_area' = acc.total_area
         /\ weighted_avg_values' =
                Append(weighted_avg_values, avg_value(acc.total_value, acc.total_area))
         /\ idx' = idx + 1
         /\ pc' = "loop"

\* add_heat_data.calculate_heat_exp: one polygon, window with filled=False
calculate_heat_exp ==
    /\ variant = "add_heat_data"
    /\ pc = "loop"
    /\ idx <= Len(polygons)
    /\ LET polygon == polygons[idx]
       IN Iteration(mask_raises(polygon),
                    zonal_cells(polygon, nodata,
                                mask(polygon, nodata, band, FALSE),
                                0, initial_accumulators.total_value,
                                initial_accumulators.total_area))
    /\ UNCHANGED <<variant, nodata, band, polygons, transform, cellVars, insertVars,
                   normVars, twiceVars, jobVars, lcVars, posnoVars>>

\* calculate_ndvi.calculate_average_ndvi: one polygon, window with filled=True
calculate_average_ndvi ==
    /\ variant = "calculate_ndvi"
    /\ pc = "loop"
    /\ idx <= Len(polygons)
    /\ LET polygon == polygons[idx]
       IN Iteration(mask_raises(polygon),
                    zonal_cells(polygon, nodata,
                                mask(polygon, nodata, band, TRUE),
                                0, initial_accumulators.total_value,
                                initial_accumulators.total_area))
    /\ UNCHANGED <<variant, nodata, band, polygons, transform, cellVars, insertVars,
                   normVars, twiceVars, jobVars, lcVars, posnoVars>>

\* heat_exposure/calculate_and_insert.calculate_heat_exp: one polygon
heat_exposure_calculate_heat_exp ==
    /\ variant = "heat_exposure"
    /\ pc = "loop"
    /\ idx <= Len(polygons)
    /\ LET polygon == polygons[idx]
       IN Iteration(mask_raises(polygon),
                    heat_exposure_cells(polygon,
                                        mask(polygon, nodata, band, TRUE),
                                        0, initial_accumulators.total_value,
                                        initial_accumulators.total_area))
    /\ UNCHANGED <<variant, nodata, band, polygons, transform, cellVars, insertVars,
                   normVars, twiceVars, jobVars, lcVars, posnoVars>>

\* The loop is over: the list becomes a column of gdf, which is returned.
return_gdf ==
    /\ pc = "loop"
    /\ idx > Len(polygons)
    /\ pc' = "returned"
    /\ UNCHANGED <<variant, nodata, band, polygons, idx, total_value,
                   total_area, weighted_avg_values, transform, cellVars,
                   insertVars, normVars, twiceVars, jobVars, lcVars, posnoVars>>

Next ==
    \/ calculate_heat_exp
    \/ calculate_average_ndvi
    \/ heat_exposure_calculate_heat_exp
    \/ return_gdf

Spec == Init /\ [][Next]_vars

----------------------------------------------------------------------------
(* What the claims speak of, read off the raster and the polygon.           *)

\* The polygon whose iteration ended last, and its entry of the result list.
Processed == idx > 1
LastPolygon == polygons[idx - 1]
LastResult == weighted_avg_values[idx - 1]

WindowCells(polygon) ==
    LET w == geometry_window(polygon)
    IN {rc \in RasterCells : /\ w.row_off <= rc[1] /\ rc[1] < w.row_end
                             /\ w.col_off <= rc[2] /\ rc[2] < w.col_end}

Overlap(polygon, rc) == intersection(polygon, cell_geom(src_transform, rc[1], rc[2]))

IsNodata(rc) == nodata # << >> /\ band[rc] = nodata[1]

\* Cells of the window that are neither no-data nor negative and meet the polygon.
Contributing(polygon) ==
    {rc \in WindowCells(polygon) :
        ~IsNodata(rc) /\ band[rc] >= 0 /\ ~Overlap(polygon, rc).is_empty}

RECURSIVE SumValueArea(_, _)
SumValueArea(cells, polygon) ==
    IF cells = {} THEN 0
    ELSE LET rc == CHOOSE rc \in cells : TRUE
         IN band[rc] * Overlap(polygon, rc).area + SumValueArea(cells \ {rc}, polygon)

RECURSIVE SumArea(_, _)
SumArea(cells, polygon) ==
    IF cells = {} THEN 0
    ELSE LET rc == CHOOSE rc \in cells : TRUE
         IN Overlap(polygon, rc).area + SumArea(cells \ {rc}, polygon)

\* sum(v_c * A_c) / sum(A_c) over the given cells
AreaWeightedMean(cells, polygon) ==
    IF SumArea(cells, polygon) = 0 THEN NaN
    ELSE Number(SumValueArea(cells, polygon), SumArea(cells, polygon))

ExactVariants == {"add_heat_data", "calculate_ndvi"}

----------------------------------------------------------------------------
\* C1: in add_heat_data and calculate_ndvi, a polygon whose total_area is
\* positive gets sum(v_c * A_c) / sum(A_c) over exactly the cells of its
\* window that are neither no-data nor negative and meet the polygon.
C1_AreaWeightedMean ==
    (variant \in ExactVariants /\ Processed /\ total_area > 0)
        => LastResult = AreaWeightedMean(Contributing(LastPolygon), LastPolygon)

\* C2: a polygon whose total_area is 0 after the cell loop gets numpy.nan,
\* not 0 and not an exception, and it has its entry in the result list.
C2_NoDataWhenNoArea ==
    /\ Len(weighted_avg_values) = idx - 1
    /\ (Processed /\ total_area = 0) => LastResult = NaN

\* C2 witness: an iteration ended with total_area = 0 and stored nan.
C2_Witness ==
    /\ Processed
    /\ total_area = 0
    /\ WindowCells(LastPolygon) # {}
    /\ LastResult = NaN

\* C3: a cell whose sample is the no-data sentinel or negative adds nothing
\* to total_value and nothing to total_area, with filled=False
\* (add_heat_data) as with filled=True (calculate_ndvi): the accumulators
\* and the result are those of the raster without such cells.
C3_SentinelExclusion ==
    (variant \in ExactVariants /\ Processed)
        => LET cells == Contributing(LastPolygon)
           IN /\ total_area = SumArea(cells, LastPolygon)
              /\ total_value = ma_value(SumValueArea(cells, LastPolygon))
              /\ LastResult = AreaWeightedMean(cells, LastPolygon)

\* C4: when exactly one cell contributes, of positive value v (every other
\* overlapped cell being no-data or negative), the result is v exactly.
C4_SingleContributor ==
    Processed =>
        \A rc \in RasterCells :
            (Contributing(LastPolygon) = {rc} /\ band[rc] > 0
                /\ Overlap(LastPolygon, rc).area > 0)
                => LastResult = Number(band[rc], 1)

\* C5: values [[10, -9999], [-9999, 20]] with no-data -9999 and a polygon
\* over the whole 2x2 extent give 15 in add_heat_data and calculate_ndvi.
C5_ConcreteScenario ==
    (/\ variant \in ExactVariants
     /\ Processed
     /\ LastPolygon = Full
     /\ nodata = << -9999 >>
     /\ band = [rc \in RasterCells |->
                   IF rc = <<0, 0>> THEN 10
                   ELSE IF rc = <<1, 1>> THEN 20 ELSE -9999])
        => LastResult = Number(15, 1)

\* A well-formed polygon that meets only no-data or negative cells, or no
\* cell of the raster at all.
OutsideValidData(polygon) ==
    polygon.valid /\ Contributing(polygon) = {}

\* C6: a polygon entirely outside the valid-data region gets nan, not a
\* number and not an exception, and the loop goes on to the other polygons.
C6_OutsideIsNoData ==
    /\ (Processed /\ OutsideValidData(LastPolygon)) => LastResult = NaN
    /\ ~(pc = "raised" /\ OutsideValidData(polygons[idx]))

\* The result of the variant for one polygon taken alone.
AggregateAlone(polygon) ==
    LET acc == IF variant = "heat_exposure"
               THEN heat_exposure_cells(polygon, mask(polygon, nodata, band, TRUE),
                                        0, ma_value(0), 0)
               ELSE zonal_cells(polygon, nodata,
                                mask(polygon, nodata, band, variant = "calculate_ndvi"),
                                0, ma_value(0), 0)
    IN avg_value(acc.total_value, acc.total_area)

\* C7: every input polygon yields exactly one result, at its own position,
\* that depends on that polygon and the raster only: when the function is
\* over, the list is as long as the polygon set and entry i is the result
\* of polygon i taken alone.
C7_OneResultPerPolygon ==
    pc # "loop" =>
        /\ Len(weighted_avg_values) = Len(polygons)
        /\ \A i \in 1 .. Len(polygons) :
               ~mask_raises(polygons[i])
                   => weighted_avg_values[i] = AggregateAlone(polygons[i])

\* C8: a malformed polygon is reported for that polygon only: it never
\* ends the loop, which still returns a result for each sibling.
C8_MalformedIsolated ==
    ~(pc = "raised" /\ ~polygons[idx].valid)

\* Cells of positive overlap with the polygon.
Covered(polygon) ==
    {rc \in WindowCells(polygon) : Overlap(polygon, rc).area > 0}

\* C9: in every variant a sample of exactly 0, with nodata # 0 and positive
\* overlap, adds its weight to total_area, and a polygon covered only by
\* such cells yields 0, not nan.
C9_ZeroIsValid ==
    (Processed /\ nodata # << 0 >>) =>
        LET zeros == {rc \in Covered(LastPolygon) : band[rc] = 0}
        IN /\ zeros # {} => total_area > 0
           /\ (zeros # {} /\ zeros = Covered(LastPolygon))
                  => LastResult = Number(0, 1)

\* C10: heat_exposure weights each contributing cell (sample > 0) by its
\* overlap area with the polygon, so the result is the area-weighted mean.
C10_HeatExposureAreaWeighted ==
    (variant = "heat_exposure" /\ Processed /\ total_area > 0)
        => LET cells == {rc \in Covered(LastPolygon) : ~IsNodata(rc) /\ band[rc] > 0}
           IN LastResult = AreaWeightedMean(cells, LastPolygon)

----------------------------------------------------------------------------
(* The cell polygon, for any affine transform.                              *)

\* Largest magnitude of the coefficients a, b, d, e, and largest row and col.
MaxCoefficient == 2
MaxCellIndex == 2

\* No polygon loop runs.
AggIdle ==
    /\ variant = "none"
    /\ nodata = << >>
    /\ band = [rc \in RasterCells |-> 0]
    /\ polygons = << >>
    /\ idx = 1
    /\ total_value = ma_value(0)
    /\ total_area = 0
    /\ weighted_avg_values = << >>
    /\ pc = "idle"

\* The corners in the order tl, tr, bl, br: a bow-tie
cell_corners_bowtie(t, row, col) ==
    <<transform_mul(t, col, row), transform_mul(t, col + 1, row),
      transform_mul(t, col, row + 1), transform_mul(t, col + 1, row + 1)>>

\* [top_left, top_right, bottom_right, bottom_left]
cell_corners(t, row, col) ==
    <<transform_mul(t, col, row), transform_mul(t, col + 1, row),
      transform_mul(t, col + 1, row + 1), transform_mul(t, col, row + 1)>>

\* Twice the signed area of the ring through the points, by the shoelace sum.
RECURSIVE shoelace(_, _)
shoelace(points, i) ==
    IF i > Len(points) THEN 0
    ELSE LET p == points[i]
             q == points[(i % Len(points)) + 1]
         IN (p.x * q.y - q.x * p.y) + shoelace(points, i + 1)

\* Polygon(points).area
polygon_area(points) == Abs(shoelace(points, 1)) \div 2

Coefficients == -MaxCoefficient .. MaxCoefficient

InitCell ==
    /\ transform \in [a : Coefficients, b : Coefficients, c : {0, 1},
                      d : Coefficients, e : Coefficients, f : {0, 1}]
    /\ cell_row \in 0 .. MaxCellIndex
    /\ cell_col \in 0 .. MaxCellIndex
    /\ cell_geom_area = -1
    /\ AggIdle
    /\ InsertIdle
    /\ NormIdle
    /\ TwiceIdle
    /\ JobIdle
    /\ LcIdle
    /\ PosnoIdle

\* "cell_geom = Polygon([top_left, top_right, bottom_right, bottom_left])"
build_cell_geom ==
    /\ cell_geom_area = -1
    /\ cell_geom_area' = polygon_area(cell_corners(transform, cell_row, cell_col))
    /\ UNCHANGED <<aggVars, transform, cell_row, cell_col, insertVars, normVars,
                   twiceVars, jobVars, lcVars, posnoVars>>

NextCell == build_cell_geom

SpecCell == InitCell /\ [][NextCell]_vars

\* C11: for every transform and every cell, the polygon through the corners
\* (col,row), (col+1,row), (col+1,row+1), (col,row+1) has area |a*e - b*d|,
\* whatever row and col are.
C11_CellAreaIsDeterminant ==
    cell_geom_area # -1
        => cell_geom_area = Abs(transform.a * transform.e - transform.b * transform.d)

\* C11 witness: a sheared cell away from the origin with a positive area.
C11_Witness ==
    /\ cell_geom_area > 0
    /\ transform.b # 0
    /\ transform.d # 0
    /\ cell_row > 0
    /\ cell_col > 0

\* ---------------------------------------------------------------------------
\* The inserts: a result column is filtered, converted to degrees Celsius and
\* written to the database.  Temperatures are integers in hundredths of a
\* kelvin, a converted temperature is an exact fraction of hundredths of a
\* degree.
\* ---------------------------------------------------------------------------

MaxRows == 2

\* "temp_c = temp_k - 273.15", in hundredths
KelvinOffset == 27315

InsertVariants == {"add_heat_data", "heat_exposure", "gcloudtrees", "coldareas"}

\* Reference ranges a scene can have.
TempRanges == {[min |-> 28000, max |-> 30000], [min |-> 29000, max |-> 31000]}

Dates == {"2023-06-21", "2024-06-26"}

\* The values of the avgheatexposure column the two aggregations produce.
RowResults == {NaN, Masked, Number(0, 1), Number(1, 2), Number(1, 1)}

\* The values raster_to_polygon keeps: "if min_val < v <= max_val".
ColdResults == {Number(1, 4), Number(2, 5)}

RowLists(results, geometries) ==
    UNION {[1..n -> [avgheatexposure : results, geometry : geometries]] : n \in 0..MaxRows}

MetadataEntries == {[date |-> dt, min |-> r.min, max |-> r.max] : dt \in Dates, r \in TempRanges}

\* What /tmp/heat_metadata.json can hold: nothing (no file), or a list with at
\* most one entry per date (save_heat_metadata keeps one entry per date).
MetadataChoices ==
    {[exists |-> FALSE, entries |-> << >>], [exists |-> TRUE, entries |-> << >>]}
    \cup {[exists |-> TRUE, entries |-> <<e>>] : e \in MetadataEntries}
    \cup {[exists |-> TRUE, entries |-> <<e1, e2>>] :
              e1 \in {e \in MetadataEntries : e.date = "2023-06-21"},
              e2 \in {e \in MetadataEntries : e.date = "2024-06-26"}}

DbFaults == {"none", "connect", "execute", "commit"}

\* The pair handed back with max and min in each other's place.
get_temperature_from_metadata_swapped(metadata, date) ==
    LET hits == {i \in 1..Len(metadata.entries) : metadata.entries[i].date = date}
    IN  IF ~metadata.exists \/ hits = {}
        THEN << >>
        ELSE LET entry == metadata.entries[CHOOSE i \in hits : \A j \in hits : i <= j]
             IN  <<entry.min, entry.max>>

\* get_temperature_from_metadata(date_str): (max, min) of the first entry of
\* the date; << >> stands for (None, None).
get_temperature_from_metadata(metadata, date) ==
    LET hits == {i \in 1..Len(metadata.entries) : metadata.entries[i].date = date}
    IN  IF ~metadata.exists \/ hits = {}
        THEN << >>
        ELSE LET entry == metadata.entries[CHOOSE i \in hits : \A j \in hits : i <= j]
             IN  <<entry.max, entry.min>>

\* calculate_temp_in_c(heatexposure, max_temp_k, min_temp_k): NaN and masked
\* operands propagate through the arithmetic.
calculate_temp_in_c(heatexposure, max_temp_k, min_temp_k) ==
    IF heatexposure.kind # "number"
    THEN heatexposure
    ELSE Number(heatexposure.num * (max_temp_k - min_temp_k)
                    + (min_temp_k - KelvinOffset) * heatexposure.den,
                heatexposure.den)

\* calculateTempInC(heatexposure, minTempK, maxTempK) of coldareas.py
calculateTempInC(heatexposure, minTempK, maxTempK) ==
    IF heatexposure.kind # "number"
    THEN heatexposure
    ELSE Number(heatexposure.num * (maxTempK - minTempK)
                    + (minTempK - KelvinOffset) * heatexposure.den,
                heatexposure.den)

\* The test written as "not below zero": NaN passes it.
ge_zero_not_below(x) == ~(x.kind = "number" /\ x.num < 0)

\* "row.avgheatexposure >= 0" as a condition: false for NaN (every comparison
\* with NaN is false) and for the masked constant (the comparison is masked).
ge_zero(x) == x.kind = "number" /\ x.num >= 0

Indexed(gdf) ==
    [i \in 1..Len(gdf) |->
        [row |-> i, avgheatexposure |-> gdf[i].avgheatexposure, geometry |-> gdf[i].geometry]]

\* One prepared row: the row it came from, its index value and its temperature.
Prepared(r, temp) == [row |-> r.row, avgheatexposure |-> r.avgheatexposure, avg_temp_c |-> temp]

InitInsert ==
    /\ insert_variant \in InsertVariants
    /\ buildings_gdf \in
         IF insert_variant = "coldareas" THEN RowLists(ColdResults, {TRUE})
         ELSE IF insert_variant = "gcloudtrees" THEN RowLists({NaN}, BOOLEAN)
         ELSE IF insert_variant = "heat_exposure" THEN RowLists(RowResults, {TRUE})
         ELSE RowLists(RowResults, BOOLEAN)
    /\ heat_metadata \in
         IF insert_variant = "add_heat_data" THEN MetadataChoices
         ELSE {[exists |-> FALSE, entries |-> << >>]}
    /\ date_str \in IF insert_variant = "add_heat_data" THEN Dates ELSE {"none"}
    /\ env_temps \in
         IF insert_variant \in {"heat_exposure", "coldareas"} THEN TempRanges
         ELSE {[min |-> 0, max |-> 0]}
    /\ db_fault \in DbFaults
    /\ converted = << >>
    /\ data_to_insert = << >>
    /\ db_rows = << >>
    /\ insert_result = [kind |-> "pending", count |-> 0]
    /\ AggIdle
    /\ transform = north_up
    /\ CellIdle
    /\ NormIdle
    /\ TwiceIdle
    /\ JobIdle
    /\ LcIdle
    /\ PosnoIdle

Returned(n) == [kind |-> "count", count |-> n]
ReturnedNone == [kind |-> "none", count |-> 0]
Raised == [kind |-> "raised", count |-> 0]

\* The try / except / finally of the two Cloud SQL inserts, after the rows are
\* prepared: a failing executemany or commit is caught and leaves the count at
\* 0; nothing is sent when no row was prepared.
batch_insert(data) ==
    IF data # << >> /\ db_fault = "none"
    THEN /\ db_rows' = data
         /\ insert_result' = Returned(Len(data))
    ELSE /\ db_rows' = db_rows
         /\ insert_result' = Returned(0)

\* What a call of add_heat_data.insert_to_db(buildings_gdf, date_str) does.
insert_to_db_call ==
    /\ insert_variant = "add_heat_data"
    /\ insert_result.kind = "pending"
    /\ LET temps == get_temperature_from_metadata(heat_metadata, date_str)
       IN  IF temps = << >>
           THEN \* "return": nothing is returned
                /\ insert_result' = ReturnedNone
                /\ UNCHANGED <<converted, data_to_insert, db_rows>>
           ELSE IF db_fault = "connect"
           THEN \* getconn() raises, the except clause prints, and
                \* "cursor.close()" of the finally clause reads the unbound
                \* cursor: UnboundLocalError leaves the function
                /\ insert_result' = Raised
                /\ UNCHANGED <<converted, data_to_insert, db_rows>>
           ELSE LET max_temp_k == temps[1]
                    min_temp_k == temps[2]
                    kept == SelectSeq(Indexed(buildings_gdf),
                                LAMBDA r : ge_zero(r.avgheatexposure) /\ r.geometry)
                    data == [i \in 1..Len(kept) |->
                                Prepared(kept[i],
                                    calculate_temp_in_c(kept[i].avgheatexposure,
                                                        max_temp_k, min_temp_k))]
                IN  /\ converted' = data
                    /\ data_to_insert' = data
                    /\ batch_insert(data)
    /\ UNCHANGED <<insert_variant, buildings_gdf, heat_metadata, date_str, env_temps,
                   db_fault>>

\* add_heat_data.insert_to_db(buildings_gdf, date_str), called on its own
insert_to_db ==
    /\ insert_to_db_call
    /\ UNCHANGED <<aggVars, transform, cellVars, normVars, twiceVars, jobVars, lcVars, posnoVars>>

\* heat_exposure.insert_to_db(buildings_gdf): the range is the module's
\* min_temp_k / max_temp_k; a database error is printed and raised again.
heat_exposure_insert_to_db ==
    /\ insert_variant = "heat_exposure"
    /\ insert_result.kind = "pending"
    /\ LET max_temp_k == env_temps.max
           min_temp_k == env_temps.min
           kept == SelectSeq(Indexed(buildings_gdf), LAMBDA r : ge_zero(r.avgheatexposure))
           data == [i \in 1..Len(kept) |->
                       Prepared(kept[i],
                           calculate_temp_in_c(kept[i].avgheatexposure,
                                               max_temp_k, min_temp_k))]
       IN  /\ converted' = data
           /\ data_to_insert' = data
           /\ IF db_fault = "none"
              THEN /\ db_rows' = data
                   /\ insert_result' = ReturnedNone
              ELSE /\ db_rows' = db_rows
                   /\ insert_result' = Raised
    /\ UNCHANGED <<aggVars, transform, cellVars, normVars, twiceVars, jobVars, lcVars, posnoVars,
                   insert_variant, buildings_gdf,
                   heat_metadata, date_str, env_temps, db_fault>>

\* gcloudtrees.insert_to_db(trees_gdf): rows with a geometry, no conversion.
gcloudtrees_insert_to_db ==
    /\ insert_variant = "gcloudtrees"
    /\ insert_result.kind = "pending"
    /\ IF db_fault = "connect"
       THEN /\ insert_result' = Raised
            /\ UNCHANGED <<data_to_insert, db_rows>>
       ELSE LET kept == SelectSeq(Indexed(buildings_gdf), LAMBDA r : r.geometry)
                data == [i \in 1..Len(kept) |-> Prepared(kept[i], NaN)]
            IN  /\ data_to_insert' = data
                /\ batch_insert(data)
    /\ UNCHANGED <<aggVars, transform, cellVars, normVars, twiceVars, jobVars, lcVars, posnoVars,
                   insert_variant, buildings_gdf,
                   heat_metadata, date_str, env_temps, db_fault, converted>>

\* coldareas.spatial_relation_with_postal_code_areas_and_save_to_db, every
\* polygon lying in one postal code area: the connection is opened first; for
\* the first polygon the temperature is computed, then json.dumps of the
\* shapely geometry raises TypeError before cur.execute is called.
spatial_relation_with_postal_code_areas_and_save_to_db ==
    /\ insert_variant = "coldareas"
    /\ insert_result.kind = "pending"
    /\ IF db_fault = "connect"
       THEN /\ insert_result' = Raised
            /\ UNCHANGED converted
       ELSE IF buildings_gdf = << >>
       THEN /\ insert_result' = ReturnedNone
            /\ UNCHANGED converted
       ELSE LET minTempK == env_temps.min
                maxTempK == env_temps.max
                polygon == Indexed(buildings_gdf)[1]
                temp_c == calculateTempInC(polygon.avgheatexposure, minTempK, maxTempK)
            IN  /\ converted' = <<Prepared(polygon, temp_c)>>
                /\ insert_result' = Raised
    /\ UNCHANGED <<aggVars, transform, cellVars, normVars, twiceVars, jobVars, lcVars, posnoVars,
                   insert_variant, buildings_gdf,
                   heat_metadata, date_str, env_temps, db_fault, data_to_insert, db_rows>>

NextInsert ==
    \/ insert_to_db
    \/ heat_exposure_insert_to_db
    \/ gcloudtrees_insert_to_db
    \/ spatial_relation_with_postal_code_areas_and_save_to_db

SpecInsert == InitInsert /\ [][NextInsert]_vars

\* The range the conversion has to use: the entry of the date in the metadata
\* file, or the configured range.
ReferenceRange ==
    IF insert_variant = "add_heat_data"
    THEN LET hits == {i \in 1..Len(heat_metadata.entries) :
                          heat_metadata.entries[i].date = date_str}
         IN  heat_metadata.entries[CHOOSE i \in hits : \A j \in hits : i <= j]
    ELSE env_temps

\* h * (max - min) + min - 273.15 as an exact fraction of hundredths.
ExpectedTempC(h, min, max) ==
    Number(h.num * (max - min) + min * h.den - KelvinOffset * h.den, h.den)

Conversions == {converted[i] : i \in 1..Len(converted)}

\* C12: every conversion of the three converters yields
\* heatexposure * (max - min) + min - 273.15, max and min being the maximum and
\* the minimum of the reference range: index 0 gives min - 273.15 and index 1
\* gives max - 273.15.
C12_ConverterFormula ==
    \A c \in Conversions :
        /\ c.avg_temp_c =
             ExpectedTempC(c.avgheatexposure, ReferenceRange.min, ReferenceRange.max)
        /\ c.avgheatexposure = Number(0, 1)
             => c.avg_temp_c = Number(ReferenceRange.min - KelvinOffset, 1)
        /\ c.avgheatexposure = Number(1, 1)
             => c.avg_temp_c = Number(ReferenceRange.max - KelvinOffset, 1)

\* C12 witness: add_heat_data has converted an index of 1 to the maximum of
\* the date's entry, which is not the first entry of the file.
C12_Witness ==
    /\ insert_variant = "add_heat_data"
    /\ Len(heat_metadata.entries) = 2
    /\ heat_metadata.entries[1].date # date_str
    /\ \E c \in Conversions :
          /\ c.avgheatexposure = Number(1, 1)
          /\ c.avg_temp_c = Number(ReferenceRange.max - KelvinOffset, 1)

PreparedRows == {data_to_insert[i] : i \in 1..Len(data_to_insert)}

\* C14: in add_heat_data and heat_exposure no polygon whose result is NaN is
\* converted or prepared for insertion; only numeric results >= 0 reach the
\* converter, and every converted temperature is a number.
C14_NaNNeverConverted ==
    insert_variant \in {"add_heat_data", "heat_exposure"}
        => /\ \A c \in Conversions \cup PreparedRows :
                 /\ buildings_gdf[c.row].avgheatexposure # NaN
                 /\ c.avgheatexposure.kind = "number"
                 /\ c.avgheatexposure.num >= 0
                 /\ c.avg_temp_c.kind = "number"
           /\ \A i \in 1..Len(buildings_gdf) :
                 buildings_gdf[i].avgheatexposure = NaN
                     => \A c \in Conversions \cup PreparedRows : c.row # i

\* C14 witness: an insert has run over a NaN row and a row with a result; only
\* the second was converted and prepared.
C14_Witness ==
    /\ insert_variant \in {"add_heat_data", "heat_exposure"}
    /\ insert_result.kind # "pending"
    /\ Len(buildings_gdf) = 2
    /\ buildings_gdf[1].avgheatexposure = NaN
    /\ buildings_gdf[1].geometry
    /\ Len(data_to_insert) = 1
    /\ data_to_insert[1].row = 2
    /\ converted = data_to_insert

\* C20: insert_to_db of add_heat_data and of gcloudtrees returns the number of
\* rows it inserted in every outcome: the count of the committed rows, 0 when
\* nothing was committed, and a database failure is caught, never raised.
C20_InsertReturnsCount ==
    (insert_variant \in {"add_heat_data", "gcloudtrees"} /\ insert_result.kind # "pending")
        => /\ insert_result.kind = "count"
           /\ insert_result.count = Len(db_rows)

\* ---------------------------------------------------------------------------
\* normalise_landsat_b10: the clipped thermal band is normalised to the range
\* of its valid pixels and the range is saved under the date in the metadata
\* file of the bucket.  Pixels are integers in hundredths of a kelvin.
\* ---------------------------------------------------------------------------

MaxPixels == 3
MaxRequests == 2

\* "band >= 273", in hundredths
KelvinThreshold == 27300

\* 0 is the fill of the clip, 27000 lies below the threshold.
ThermalSamples == {0, 27000, 27300, 29000, 30500}

\* The bands, up to the order of their pixels: the normalisation works pixel
\* by pixel and the range is a minimum and a maximum.
ThermalBands ==
    UNION {{b \in [1..n -> ThermalSamples] : \A i \in 1..(n - 1) : b[i] <= b[i + 1]} :
              n \in 1..MaxPixels}

\* "valid_pixels = band[(band > 0) & (band >= 273)]"
valid_pixels(b) == {b[i] : i \in {j \in 1..Len(b) : b[j] > 0 /\ b[j] >= KelvinThreshold}}

\* The offset from the minimum divided by the maximum instead of the range.
normalized_pixel_by_max(x, lo, hi) ==
    IF x >= KelvinThreshold
    THEN Number(x - lo, hi)
    ELSE Number(-1, 1)

\* One element of "np.where(band >= 273, (band - actual_min) / (actual_max -
\* actual_min), -1)"; 0/0 is nan when the range is empty.
normalized_pixel(x, lo, hi) ==
    IF x >= KelvinThreshold
    THEN (IF hi = lo THEN NaN ELSE Number(x - lo, hi - lo))
    ELSE Number(-1, 1)

\* The entry of the date is left alone and a new entry is appended.
save_heat_metadata_append(blob, date, min_value, max_value) ==
    LET metadata == IF blob.exists THEN blob.entries ELSE << >>
    IN  [exists |-> TRUE,
         entries |-> Append(metadata, [date |-> date, min |-> min_value, max |-> max_value])]

\* save_heat_metadata(bucket, metadata_path, date, min_value, max_value, ...):
\* the download fails when there is no blob and the list starts empty; the
\* first entry of the date is updated in place, or a new entry is appended; the
\* list is uploaded.
save_heat_metadata(blob, date, min_value, max_value) ==
    LET metadata == IF blob.exists THEN blob.entries ELSE << >>
        hits == {i \in 1..Len(metadata) : metadata[i].date = date}
    IN  [exists |-> TRUE,
         entries |->
            IF hits # {}
            THEN LET existing_entry == CHOOSE i \in hits : \A j \in hits : i <= j
                 IN  [metadata EXCEPT ![existing_entry] =
                         [date |-> date, min |-> min_value, max |-> max_value]]
            ELSE Append(metadata, [date |-> date, min |-> min_value, max |-> max_value])]

NotSaved == [saved |-> FALSE, min |-> 0, max |-> 0]

InitNormalise ==
    /\ metadata_blob \in
         {[exists |-> FALSE, entries |-> << >>], [exists |-> TRUE, entries |-> << >>]}
         \cup {[exists |-> TRUE, entries |-> <<e>>] : e \in MetadataEntries}
    /\ norm_date = "none"
    /\ thermal_band = << >>
    /\ actual_min = 0
    /\ actual_max = 0
    /\ normalized_band = << >>
    /\ response_status = 0
    /\ last_saved = [dt \in Dates |-> NotSaved]
    /\ requests = 0
    /\ AggIdle
    /\ transform = north_up
    /\ CellIdle
    /\ InsertIdle
    /\ TwiceIdle
    /\ JobIdle
    /\ LcIdle
    /\ PosnoIdle

\* normalise_landsat_b10(request) for a date and the band the clip yields
normalise_landsat_b10 ==
    /\ requests < MaxRequests
    /\ \E dt \in Dates, b \in ThermalBands :
          /\ norm_date' = dt
          /\ thermal_band' = b
          /\ requests' = requests + 1
          /\ IF valid_pixels(b) = {}
             THEN \* "No valid temperature values found above 273K.", 400
                  /\ response_status' = 400
                  /\ normalized_band' = << >>
                  /\ UNCHANGED <<actual_min, actual_max, metadata_blob, last_saved>>
             ELSE LET lo == CHOOSE v \in valid_pixels(b) : \A w \in valid_pixels(b) : v <= w
                      hi == CHOOSE v \in valid_pixels(b) : \A w \in valid_pixels(b) : v >= w
                  IN  /\ actual_min' = lo
                      /\ actual_max' = hi
                      /\ normalized_band' = [i \in 1..Len(b) |-> normalized_pixel(b[i], lo, hi)]
                      /\ metadata_blob' = save_heat_metadata(metadata_blob, dt, lo, hi)
                      /\ last_saved' = [last_saved EXCEPT
                                           ![dt] = [saved |-> TRUE, min |-> lo, max |-> hi]]
                      /\ response_status' = 200
    /\ UNCHANGED <<aggVars, transform, cellVars, insertVars, twiceVars, jobVars, lcVars, posnoVars>>

NextNormalise == normalise_landsat_b10

SpecNormalise == InitNormalise /\ [][NextNormalise]_vars

\* C13 as stated: converting a normalised pixel back with the saved range
\* gives the pixel's value again, for every pixel of a band whose range is not
\* empty.
C13_RoundTripIdentity ==
    (response_status = 200 /\ actual_min < actual_max)
        => \A i \in 1..Len(thermal_band) :
              calculate_temp_in_c(normalized_band[i], actual_max, actual_min)
                  = Number(thermal_band[i], 1)

\* C13 amended: for every pixel of at least 273 K of a band whose range is not
\* empty, converting the normalised pixel back with the range saved for the
\* date gives the pixel's temperature in degrees Celsius, its value minus
\* 273.15.
C13_RoundTripCelsius ==
    (response_status = 200 /\ actual_min < actual_max)
        => LET temps == get_temperature_from_metadata(metadata_blob, norm_date)
           IN  \A i \in 1..Len(thermal_band) :
                  thermal_band[i] >= KelvinThreshold
                      => calculate_temp_in_c(normalized_band[i], temps[1], temps[2])
                             = Number(thermal_band[i] - KelvinOffset, 1)

\* C13 witness: a band with a pixel strictly inside its range was normalised.
C13_Witness ==
    /\ response_status = 200
    /\ \E i \in 1..Len(thermal_band) :
          /\ actual_min < thermal_band[i]
          /\ thermal_band[i] < actual_max
          /\ normalized_band[i].kind = "number"
          /\ normalized_band[i].num > 0
          /\ normalized_band[i].den > normalized_band[i].num

EntriesOf(dt) ==
    {i \in 1..Len(metadata_blob.entries) : metadata_blob.entries[i].date = dt}

DegenerateTransforms ==
    {[a |-> 2, b |-> 0, c |-> 0, d |-> 0, e |-> 0, f |-> 0],
     [a |-> 2, b |-> 2, c |-> 0, d |-> 2, e |-> 2, f |-> 0]}

RepeatSamples == {-9999, 10}

InitTwice ==
    /\ variant \in Variants
    /\ nodata \in NodataChoices
    /\ band \in [RasterCells -> RepeatSamples]
    /\ polygons \in PolygonLists
    /\ idx = 1
    /\ total_value = ma_value(0)
    /\ total_area = 0
    /\ weighted_avg_values = << >>
    /\ pc = "loop"
    /\ transform \in {north_up} \cup DegenerateTransforms
    /\ CellIdle
    /\ InsertIdle
    /\ NormIdle
    /\ TwiceIdle
    /\ JobIdle
    /\ LcIdle
    /\ PosnoIdle

\* The function is called again with the same gdf and src: its locals are
\* created anew ("weighted_avg_values = []"), the loop starts over.
run_again ==
    /\ run = 1
    /\ pc \in {"returned", "raised"}
    /\ first_run' = [pc |-> pc, weighted_avg_values |-> weighted_avg_values]
    /\ run' = 2
    /\ weighted_avg_values' = << >>
    /\ idx' = 1
    /\ pc' = "loop"
    /\ UNCHANGED <<variant, nodata, band, polygons, total_value, total_area,
                   transform, cellVars, insertVars, normVars, jobVars, lcVars, posnoVars>>

NextTwice ==
    \/ calculate_heat_exp
    \/ calculate_average_ndvi
    \/ heat_exposure_calculate_heat_exp
    \/ return_gdf
    \/ run_again

SpecTwice == InitTwice /\ [][NextTwice]_vars

\* C15: with a degenerate transform the aggregation does not fail, and every
\* polygon of a finished run gets the no-data marker.
C15_DegenerateIsNoData ==
    is_degenerate(transform)
        => /\ pc # "raised"
           /\ pc = "returned"
                => \A i \in 1..Len(weighted_avg_values) : weighted_avg_values[i] = NaN

\* C17: a second call on the same polygons, band, transform and no-data value
\* ends as the first did and yields the same result for every polygon.
C17_Idempotent ==
    (run = 2 /\ pc \in {"returned", "raised"})
        => first_run = [pc |-> pc, weighted_avg_values |-> weighted_avg_values]

\* C17 witness: two calls returned the same two results, a number and then
\* another value.
C17_Witness ==
    /\ run = 2
    /\ pc = "returned"
    /\ Len(weighted_avg_values) = 2
    /\ weighted_avg_values[1].kind = "number"
    /\ weighted_avg_values[1].num > 0
    /\ weighted_avg_values[2] # weighted_avg_values[1]
    /\ first_run.weighted_avg_values = weighted_avg_values

\* ---------------------------------------------------------------------------
\* The fetches from the WFS server.  A feature is its vtj_prt ("" for a
\* missing, null or empty one) and its place in the response.
\* ---------------------------------------------------------------------------

MaxFeatures == 4

VtjKeys == {"", "A", "B"}

ResponseFeatures ==
    UNION {{[i \in 1..n |-> [vtj_prt |-> k[i], fid |-> i]] : k \in [1..n -> VtjKeys]} :
              n \in 0..MaxFeatures}

\* urlopen raises, the body is empty, the body is no JSON, the JSON has no
\* 'features', or the JSON is a feature collection.
WfsResponses ==
    {[kind |-> kd, features |-> << >>] : kd \in {"error", "empty", "invalid_json", "no_features"}}
    \cup {[kind |-> "ok", features |-> fs] : fs \in ResponseFeatures}

FetchedNone == [kind |-> "none", has_features |-> FALSE, features |-> << >>]
FetchedData(has, fs) == [kind |-> "data", has_features |-> has, features |-> fs]

\* A key that is present keeps the feature it has.
dict_setdefault(unique_features, vtj_prt, feature) ==
    IF \E i \in 1..Len(unique_features) : unique_features[i].vtj_prt = vtj_prt
    THEN unique_features
    ELSE Append(unique_features, feature)

\* "unique_features[vtj_prt] = feature" on a dict, kept as the list of its
\* values in insertion order: the value of a key that is present is replaced
\* where it stands, a new key goes to the end.
dict_setitem(unique_features, vtj_prt, feature) ==
    IF \E i \in 1..Len(unique_features) : unique_features[i].vtj_prt = vtj_prt
    THEN [i \in 1..Len(unique_features) |->
             IF unique_features[i].vtj_prt = vtj_prt THEN feature ELSE unique_features[i]]
    ELSE Append(unique_features, feature)

\* "for feature in data['features']: ... if vtj_prt: unique_features[vtj_prt]
\* = feature", then "list(unique_features.values())"
RECURSIVE remove_duplicates(_, _, _)
remove_duplicates(features, k, unique_features) ==
    IF k > Len(features)
    THEN unique_features
    ELSE remove_duplicates(features, k + 1,
             IF features[k].vtj_prt # ""
             THEN dict_setitem(unique_features, features[k].vtj_prt, features[k])
             ELSE unique_features)

\* What fetch_wfs_data(posno) of update_hsy_buildings_by_posno returns.
fetch_by_posno(response) ==
    IF response.kind = "ok"
    THEN FetchedData(TRUE, remove_duplicates(response.features, 1, << >>))
    ELSE FetchedNone

InitWfs ==
    /\ job = "fetch_wfs_data_by_posno"
    /\ wfs_response \in WfsResponses
    /\ fetched = [kind |-> "pending", has_features |-> FALSE, features |-> << >>]
    /\ job_fault = "none"
    /\ existing_keys = {}
    /\ committed = << >>
    /\ attempted = FALSE
    /\ job_response = [kind |-> "pending", body |-> "none"]
    /\ AggIdle
    /\ transform = north_up
    /\ CellIdle
    /\ InsertIdle
    /\ NormIdle
    /\ TwiceIdle
    /\ LcIdle
    /\ PosnoIdle

\* update_hsy_buildings_by_posno.fetch_wfs_data(posno)
fetch_wfs_data_by_posno ==
    /\ job = "fetch_wfs_data_by_posno"
    /\ fetched.kind = "pending"
    /\ fetched' = fetch_by_posno(wfs_response)
    /\ UNCHANGED <<aggVars, transform, cellVars, insertVars, normVars, twiceVars,
                   lcVars, posnoVars, job,
                   wfs_response, job_fault, existing_keys, committed, attempted,
                   job_response>>

NextWfs == fetch_wfs_data_by_posno

SpecWfs == InitWfs /\ [][NextWfs]_vars

Returned_vtj_prt == {fetched.features[i].vtj_prt : i \in 1..Len(fetched.features)}

Response_vtj_prt ==
    {wfs_response.features[i].vtj_prt : i \in 1..Len(wfs_response.features)} \ {""}

\* C19: the list fetch_wfs_data (by posno) returns holds exactly one feature
\* per distinct non-empty vtj_prt of the response, the last feature of the
\* response that carries it, and no two returned features share a vtj_prt.
C19_LastFeaturePerKey ==
    fetched.kind = "data"
        => /\ Returned_vtj_prt = Response_vtj_prt
           /\ \A i, j \in 1..Len(fetched.features) :
                 fetched.features[i].vtj_prt = fetched.features[j].vtj_prt => i = j
           /\ \A i \in 1..Len(fetched.features) :
                 LET f == fetched.features[i]
                 IN  /\ f.fid \in 1..Len(wfs_response.features)
                     /\ wfs_response.features[f.fid] = f
                     /\ \A n \in 1..Len(wfs_response.features) :
                           wfs_response.features[n].vtj_prt = f.vtj_prt => n <= f.fid

\* C19 witness: a response with a repeated vtj_prt, another vtj_prt and a
\* feature without one was reduced to two features.
C19_Witness ==
    /\ fetched.kind = "data"
    /\ Len(wfs_response.features) = 4
    /\ wfs_response.features[1].vtj_prt = wfs_response.features[3].vtj_prt
    /\ \E n \in 1..4 : wfs_response.features[n].vtj_prt = ""
    /\ Len(fetched.features) = 2
    /\ fetched.features[1].fid = 3

\* ---------------------------------------------------------------------------
\* The entry points update_hsy_buildings and calculate_heat_data: a fetch,
\* then the work on what was fetched.  In update_hsy_buildings a feature
\* without vtj_prt carries None, which no row of the table equals; the
\* features are buildings, none of them a 'piste'.
\* ---------------------------------------------------------------------------

Jobs == {"update_hsy_buildings", "add_heat_data"}

\* What update_hsy_buildings.fetch_wfs_data() returns: the parsed JSON, with or
\* without 'features', or None.
fetch_wfs_data(response) ==
    IF response.kind = "ok" THEN FetchedData(TRUE, response.features)
    ELSE IF response.kind = "no_features" THEN FetchedData(FALSE, << >>)
    ELSE FetchedNone

\* The statements the loop of update_google_sql executes: an UPDATE when the
\* SELECT finds the vtj_prt, in the table or inserted earlier in the
\* transaction, an INSERT otherwise.
RECURSIVE statements(_, _, _)
statements(features, k, known) ==
    IF k > Len(features)
    THEN << >>
    ELSE LET vtj_prt == features[k].vtj_prt
             existing_record == vtj_prt # "" /\ vtj_prt \in known
         IN  <<[op |-> IF existing_record THEN "update" ELSE "insert",
                vtj_prt |-> vtj_prt, fid |-> features[k].fid]>>
             \o statements(features, k + 1, known \cup {vtj_prt})

Pending == [kind |-> "pending", body |-> "none"]
Success(body) == [kind |-> "returned", body |-> body]
Failure(error) == [kind |-> "raised", body |-> error]

InitJob ==
    /\ job \in Jobs
    /\ fetched = [kind |-> "pending", has_features |-> FALSE, features |-> << >>]
    /\ committed = << >>
    /\ attempted = FALSE
    /\ job_response = Pending
    /\ IF job = "update_hsy_buildings"
       THEN /\ wfs_response \in WfsResponses
            /\ job_fault \in {"none", "connect", "execute", "commit"}
            /\ existing_keys \in SUBSET {"A"}
            /\ InsertIdle
       ELSE /\ wfs_response = [kind |-> "none", features |-> << >>]
            /\ job_fault \in {"none", "fetch", "raster", "aggregation", "metadata"}
            /\ existing_keys = {}
            /\ insert_variant = "add_heat_data"
            /\ buildings_gdf \in RowLists(RowResults, {TRUE})
            /\ heat_metadata \in {m \in MetadataChoices : m.exists}
            /\ date_str \in Dates
            /\ env_temps = [min |-> 0, max |-> 0]
            /\ db_fault \in DbFaults
            /\ converted = << >>
            /\ data_to_insert = << >>
            /\ db_rows = << >>
            /\ insert_result = [kind |-> "pending", count |-> 0]
    /\ AggIdle
    /\ transform = north_up
    /\ CellIdle
    /\ NormIdle
    /\ TwiceIdle
    /\ LcIdle
    /\ PosnoIdle

\* update_hsy_buildings(request): fetch_wfs_data(), update_google_sql(data),
\* and the fixed return value.  update_google_sql returns at once without
\* data; a failing connect, or a failing commit after an empty loop, reaches
\* "print(f'geom {geom}')" of the except clause with geom unbound, which
\* raises; any other database error is printed and swallowed.
update_hsy_buildings ==
    /\ job = "update_hsy_buildings"
    /\ job_response.kind = "pending"
    /\ LET data == fetch_wfs_data(wfs_response)
       IN  /\ fetched' = data
           /\ IF data.kind = "none" \/ ~data.has_features
              THEN /\ attempted' = FALSE
                   /\ committed' = << >>
                   /\ job_response' = Success("Data fetched and updated successfully!")
              ELSE /\ attempted' = TRUE
                   /\ IF job_fault = "connect"
                         \/ (job_fault = "commit" /\ data.features = << >>)
                      THEN /\ committed' = << >>
                           /\ job_response' = Failure("UnboundLocalError")
                      ELSE /\ committed' =
                                 IF job_fault = "none"
                                 THEN statements(data.features, 1, existing_keys)
                                 ELSE << >>
                           /\ job_response' =
                                 Success("Data fetched and updated successfully!")
    /\ UNCHANGED <<aggVars, transform, cellVars, insertVars, normVars, twiceVars,
                   lcVars, posnoVars, job,
                   wfs_response, job_fault, existing_keys>>

\* calculate_heat_data(request): fetch_buildings_from_db(posno) returns None
\* when the query fails and calculate_heat_exp(None, src) then raises
\* TypeError at geojson["features"]; the downloads, the aggregation and the
\* insert raise out of the entry point, which catches nothing.  The
\* aggregation is taken by its result column, buildings_gdf.
calculate_heat_data ==
    /\ job = "add_heat_data"
    /\ job_response.kind = "pending"
    /\ committed' = << >>
    /\ IF job_fault = "fetch"
       THEN /\ fetched' = FetchedNone
            /\ attempted' = FALSE
            /\ job_response' = Failure("TypeError")
            /\ UNCHANGED insertVars
       ELSE /\ fetched' = FetchedData(TRUE,
                             [i \in 1..Len(buildings_gdf) |-> [vtj_prt |-> "", fid |-> i]])
            /\ IF job_fault = "raster"
               THEN /\ attempted' = FALSE
                    /\ job_response' = Failure("NotFound")
                    /\ UNCHANGED insertVars
               ELSE IF job_fault \in {"aggregation", "metadata"}
               THEN /\ attempted' = TRUE
                    /\ job_response' =
                          Failure(IF job_fault = "aggregation" THEN "ValueError" ELSE "NotFound")
                    /\ UNCHANGED insertVars
               ELSE /\ attempted' = TRUE
                    /\ insert_to_db_call
                    /\ job_response' =
                          IF insert_result'.kind = "raised"
                          THEN Failure("UnboundLocalError")
                          ELSE Success("success")
    /\ UNCHANGED <<aggVars, transform, cellVars, normVars, twiceVars, lcVars,
                   posnoVars, job, wfs_response,
                   job_fault, existing_keys>>

NextJob ==
    \/ update_hsy_buildings
    \/ calculate_heat_data

SpecJob == InitJob /\ [][NextJob]_vars

\* C16: when the fetch returned None, the job ends in a failure: nothing is
\* processed, nothing is written to the database, and the entry point does not
\* return a success response.
C16_FetchFailureIsFatal ==
    (job_response.kind # "pending" /\ fetched.kind = "none")
        => /\ job_response.kind = "raised"
           /\ ~attempted
           /\ committed = << >>
           /\ db_rows = << >>

\* ---------------------------------------------------------------------------
\* adaptation_landcover, after the request, the environment and the source
\* grid were read: one step per grid cell, with the flush that follows it.
\* A feature is a dict, kept as a record of its keys; a batch is the list of
\* the rows of batch_gdf.
\* ---------------------------------------------------------------------------

MaxGridCells == 3
MaxBatchSize == 2
MaxLayers == 2

\* 'year' of the request and int(year)
request_year == [text |-> "2022", int |-> 2022]

\* connector.connect raises, executemany or commit raises, or nothing fails.
LcFaults == {"none", "connect", "execute"}

\* The dict appended for a layer whose clip with the grid cell is not empty.
new_feature(grid_cell_id, layer) ==
    [grid_id |-> grid_cell_id, koodi |-> layer, area_m2 |-> 1,
     geom |-> <<grid_cell_id, layer>>]

\* The features the layers of got add for a grid cell, in the order of
\* 'wfs_layers'.
RECURSIVE cell_features(_, _, _)
cell_features(grid_cell_id, layer, got) ==
    IF layer > layers
    THEN << >>
    ELSE (IF layer \in got THEN <<new_feature(grid_cell_id, layer)>> ELSE << >>)
         \o cell_features(grid_cell_id, layer + 1, got)

\* "if (index + 1) % batch_size == 0 or (index + 1) == len(grid_gdf)"
flush_due(index) == (index + 1) % batch_size = 0 \/ (index + 1) = grid_len

\* batch_gdf as line 159 leaves it: the frame that got the 'year' column is
\* replaced by a new frame built from the dicts, with 'geom' as its geometry
\* column; its rows have the keys of the dicts.
batch_gdf(features, year) ==
    LET with_year == [i \in 1..Len(features) |->
                         [grid_id |-> features[i].grid_id, koodi |-> features[i].koodi,
                          area_m2 |-> features[i].area_m2, geom |-> features[i].geom,
                          year |-> year]]
        rebuilt == features
    IN  rebuilt

\* insert_data_to_sql(processed_gdf, db_connection_info): (inserted_count,
\* status) and the rows committed.  The loop reads row.geometry, row['grid_id'],
\* row['area_m2'], row['year'] and row['koodi']; a row without one of them
\* raises AttributeError or KeyError, which the except clause turns into the
\* status.
insert_data_to_sql(processed_gdf, fault) ==
    LET failed(message) == [inserted_count |-> 0, status_message |-> message, rows |-> << >>]
    IN  IF fault = "connect" THEN failed("connection failed")
        ELSE IF \E i \in 1..Len(processed_gdf) : "geometry" \notin DOMAIN processed_gdf[i]
        THEN failed("'Series' object has no attribute 'geometry'")
        ELSE IF \E i \in 1..Len(processed_gdf) :
                   ~({"grid_id", "area_m2", "year", "koodi"} \subseteq DOMAIN processed_gdf[i])
        THEN failed("KeyError")
        ELSE IF processed_gdf # << >> /\ fault = "execute"
        THEN failed("statement failed")
        ELSE [inserted_count |-> Len(processed_gdf), status_message |-> "Success",
              rows |-> processed_gdf]

\* The failed batch is taken for a successful one.
batch_failed_ignored(status_message) == FALSE

\* "if status_message != 'Success'"
batch_failed(status_message) == status_message # "Success"

LcResponse(kind, status, count) == [kind |-> kind, status |-> status, count |-> count]

InitLandcover ==
    /\ grid_len \in 0..MaxGridCells
    /\ batch_size \in 1..MaxBatchSize
    /\ layers \in 1..MaxLayers
    /\ crs_check \in {"warns", "raises"}
    /\ lc_index = 0
    /\ newly_created_features = << >>
    /\ total_inserted = 0
    /\ handed = << >>
    /\ created = 0
    /\ lc_rows = << >>
    /\ lc_response = LcResponse("pending", 0, 0)
    /\ AggIdle
    /\ transform = north_up
    /\ CellIdle
    /\ InsertIdle
    /\ NormIdle
    /\ TwiceIdle
    /\ JobIdle
    /\ PosnoIdle

\* One iteration of "for index, district in grid_gdf.iterrows()": the layers
\* of got yield a clipped feature, the others nothing; then the flush, if it
\* is due and features are waiting.  GeoDataFrame(features, crs=..) of line
\* 157 has no geometry column: a geopandas that refuses that raises
\* ValueError out of the handler, an older one warns and goes on.
process_grid_cell ==
    /\ lc_response.kind = "pending"
    /\ lc_index < grid_len
    /\ \E got \in SUBSET (1..layers), fault \in LcFaults :
          LET features == newly_created_features \o cell_features(lc_index, 1, got)
          IN  /\ lc_index' = lc_index + 1
              /\ created' = created + Cardinality(got)
              /\ IF ~(flush_due(lc_index) /\ features # << >>)
                 THEN /\ newly_created_features' = features
                      /\ UNCHANGED <<total_inserted, handed, lc_rows, lc_response>>
                 ELSE IF crs_check = "raises"
                 THEN /\ newly_created_features' = features
                      /\ lc_response' = LcResponse("raised", 0, 0)
                      /\ UNCHANGED <<total_inserted, handed, lc_rows>>
                 ELSE LET batch == batch_gdf(features, request_year.int)
                          result == insert_data_to_sql(batch, fault)
                      IN  /\ handed' = Append(handed,
                                  [rows |-> batch, fault |-> fault, index |-> lc_index,
                                   inserted_count |-> result.inserted_count,
                                   status_message |-> result.status_message])
                          /\ lc_rows' = lc_rows \o result.rows
                          /\ IF batch_failed(result.status_message)
                             THEN /\ lc_response' = LcResponse("error", 500, total_inserted)
                                  /\ newly_created_features' = features
                                  /\ UNCHANGED total_inserted
                             ELSE /\ total_inserted' = total_inserted + result.inserted_count
                                  /\ newly_created_features' = << >>
                                  /\ UNCHANGED lc_response
    /\ UNCHANGED <<aggVars, transform, cellVars, insertVars, normVars, twiceVars, jobVars,
                   posnoVars, grid_len, batch_size, layers, crs_check>>

\* "return jsonify({'status': 'success', ..., 'features_inserted':
\* total_inserted})" after the loop
processing_complete ==
    /\ lc_response.kind = "pending"
    /\ lc_index = grid_len
    /\ lc_response' = LcResponse("success", 200, total_inserted)
    /\ UNCHANGED <<aggVars, transform, cellVars, insertVars, normVars, twiceVars, jobVars,
                   posnoVars, grid_len, batch_size, layers, crs_check, lc_index,
                   newly_created_features, total_inserted, handed, created, lc_rows>>

NextLandcover ==
    \/ process_grid_cell
    \/ processing_complete

SpecLandcover == InitLandcover /\ [][NextLandcover]_vars

RECURSIVE SumInserted(_, _)
SumInserted(batches, n) ==
    IF n = 0 THEN 0
    ELSE SumInserted(batches, n - 1)
         + (IF batches[n].status_message = "Success" THEN batches[n].inserted_count ELSE 0)

\* C21: a batch for which insert_data_to_sql returns another status than
\* "Success" is the last batch handed over; the response is the HTTP 500 error
\* whose total is the sum of the inserted counts of the batches that succeeded
\* before it, and no grid cell after the one of the flush is fetched.
C21_StopsAtFirstFailedBatch ==
    \A n \in 1..Len(handed) :
        handed[n].status_message # "Success"
            => /\ n = Len(handed)
               /\ lc_response = LcResponse("error", 500, SumInserted(handed, n - 1))
               /\ lc_index = handed[n].index + 1
               /\ Len(lc_rows) = SumInserted(handed, n - 1)

\* C21 witness: the first batch failed while grid cells were left, and the
\* run ended with the error response.
C21_Witness ==
    /\ Len(handed) = 1
    /\ handed[1].status_message # "Success"
    /\ lc_index < grid_len
    /\ lc_response.kind = "error"
    /\ lc_response.status = 500

Batches == {handed[n] : n \in 1..Len(handed)}

\* The rows of a batch.
RowsOf(batch) == {batch.rows[i] : i \in 1..Len(batch.rows)}

\* C23: every row of every batch handed to insert_data_to_sql carries
\* grid_id, area_m2, year, koodi and geometry, with year the integer year of
\* the request, and a batch is inserted whenever the database does not fail.
C23_BatchCarriesWhatInsertReads ==
    \A batch \in Batches :
        /\ \A row \in RowsOf(batch) :
              /\ {"grid_id", "area_m2", "year", "koodi", "geometry"} \subseteq DOMAIN row
              /\ row.year = request_year.int
        /\ batch.fault = "none"
              => /\ batch.status_message = "Success"
                 /\ batch.inserted_count = Len(batch.rows)

\* The features handed over so far, batch by batch.
RECURSIVE HandedRows(_)
HandedRows(n) == IF n = 0 THEN << >> ELSE HandedRows(n - 1) \o handed[n].rows

fields ==
    <<"kunta", "vtj_prt", "raktun", "kiitun", "katu", "osno1", "oski1",
      "osno2", "oski2", "posno", "kavu", "kayttarks", "kerala", "korala",
      "kohala", "ashala", "asuntojen_lkm", "kerrosten_lkm", "rakennusaine_s",
      "julkisivu_s", "lammitystapa_s", "lammitysaine_s", "viemari", "vesijohto",
      "olotila_s", "poimintapvm", "kokotun">>

\* The %s of insert_sql: one per field, then ST_MakeValid(ST_GeomFromGeoJSON(%s))
\* and ST_Area(ST_Transform(ST_MakeValid(ST_GeomFromGeoJSON(%s)), 3857)).
insert_placeholders == Len(fields) + 2

\* The %s of update_sql: one per field, the two of geom and area_m2, and
\* "WHERE vtj_prt = %s".
update_placeholders == Len(fields) + 2 + 1

\* "values = [properties.get(field) for field in fields] + [geom]"
values(feature) ==
    [i \in 1..Len(fields) |-> IF fields[i] = "vtj_prt" THEN feature.vtj_prt ELSE "None"]
    \o <<"geom">>

\* A row of insert_values or update_values.
BoundRow(vals, feature) == [values |-> vals, vtj_prt |-> feature.vtj_prt, fid |-> feature.fid]

\* "insert_values.append(values)" for the features whose vtj_prt is not in
\* existing_vtj_prt_set.  The responses hold buildings only, none of them a
\* 'piste', so the loop skips nothing.
RECURSIVE collect_inserts(_, _, _)
collect_inserts(features, k, existing) ==
    IF k > Len(features)
    THEN << >>
    ELSE (IF features[k].vtj_prt \in existing
          THEN << >>
          ELSE <<BoundRow(values(features[k]), features[k])>>)
         \o collect_inserts(features, k + 1, existing)

\* "update_values.append(values + [properties.get('vtj_prt')])" for the others
RECURSIVE collect_updates(_, _, _)
collect_updates(features, k, existing) ==
    IF k > Len(features)
    THEN << >>
    ELSE (IF features[k].vtj_prt \in existing
          THEN <<BoundRow(values(features[k]) \o <<features[k].vtj_prt>>, features[k])>>
          ELSE << >>)
         \o collect_updates(features, k + 1, existing)

\* cursor.executemany(sql, rows) goes through when every row binds as many
\* values as the statement has placeholders.
binds(rows, placeholders) == \A i \in 1..Len(rows) : Len(rows[i].values) = placeholders

\* The statements of a transaction, as they are committed.
Statement(op, row) == [op |-> op, vtj_prt |-> row.vtj_prt, fid |-> row.fid]

\* getconn(), the SELECT of fetch_existing_vtj_prt, an executemany or the
\* commit raises, or nothing fails.
PosnoFaults == {"none", "connect", "select", "execute", "commit"}

\* update_google_sql(data, posno): None without data; otherwise the lengths of
\* insert_values and update_values, whatever happened in the try block, whose
\* except clause prints the error and goes on to the return.
update_google_sql(data, existing, fault) ==
    IF data.kind = "none" \/ ~data.has_features
    THEN [kind |-> "none", insert_values |-> << >>, update_values |-> << >>,
          committed |-> << >>]
    ELSE IF fault \in {"connect", "select"}
    THEN [kind |-> "counts", insert_values |-> << >>, update_values |-> << >>,
          committed |-> << >>]
    ELSE LET ins == collect_inserts(data.features, 1, existing)
             upd == collect_updates(data.features, 1, existing)
             executed == /\ (ins = << >> /\ upd = << >>) \/ fault # "execute"
                         /\ binds(ins, insert_placeholders)
                         /\ binds(upd, update_placeholders)
         IN  [kind |-> "counts", insert_values |-> ins, update_values |-> upd,
              committed |->
                 IF executed /\ fault # "commit"
                 THEN [i \in 1..Len(ins) |-> Statement("insert", ins[i])]
                      \o [i \in 1..Len(upd) |-> Statement("update", upd[i])]
                 ELSE << >>]

InitPosno ==
    /\ job = "update_hsy_buildings_by_posno"
    /\ wfs_response \in WfsResponses
    /\ fetched = [kind |-> "pending", has_features |-> FALSE, features |-> << >>]
    /\ job_fault \in PosnoFaults
    /\ existing_keys \in SUBSET {"A"}
    /\ committed = << >>
    /\ attempted = FALSE
    /\ job_response = Pending
    /\ PosnoIdle
    /\ AggIdle
    /\ transform = north_up
    /\ CellIdle
    /\ InsertIdle
    /\ NormIdle
    /\ TwiceIdle
    /\ LcIdle

\* update_hsy_buildings_by_posno(request): the result of update_google_sql is
\* unpacked into two counts before "if not data" is looked at, so a None
\* result raises TypeError there.
update_hsy_buildings_by_posno ==
    /\ job = "update_hsy_buildings_by_posno"
    /\ job_response.kind = "pending"
    /\ LET data == fetch_by_posno(wfs_response)
           result == update_google_sql(data, existing_keys, job_fault)
       IN  /\ fetched' = data
           /\ attempted' = (result.kind = "counts")
           /\ insert_values' = result.insert_values
           /\ update_values' = result.update_values
           /\ committed' = result.committed
           /\ IF result.kind = "none"
              THEN /\ job_response' = Failure("TypeError")
                   /\ UNCHANGED reported
              ELSE /\ reported' = [kind |-> "counts",
                                   inserted |-> Len(result.insert_values),
                                   updated |-> Len(result.update_values)]
                   /\ job_response' =
                         IF data.kind = "none"
                         THEN [kind |-> "error", body |-> "No data returned from WFS"]
                         ELSE Success("success")
    /\ UNCHANGED <<aggVars, transform, cellVars, insertVars, normVars, twiceVars, lcVars,
                   job, wfs_response, job_fault, existing_keys>>

NextPosno == update_hsy_buildings_by_posno

SpecPosno == InitPosno /\ [][NextPosno]_vars

\* C24: when fetch_wfs_data returned None, the handler answers with the error
\* response "No data returned from WFS" (HTTP 500) and nothing is written to
\* the database.
C24_FailedFetchIsErrorResponse ==
    (job = "update_hsy_buildings_by_posno" /\ job_response.kind # "pending"
        /\ fetched.kind = "none")
        => /\ job_response = [kind |-> "error", body |-> "No data returned from WFS"]
           /\ committed = << >>

CommittedOps(op) == {i \in 1..Len(committed) : committed[i].op = op}

\* C25: the counts reported with status success are the numbers of rows
\* inserted and updated by the committed transaction; when a statement or the
\* commit failed, no success response with a count other than 0 is returned.
C25_CountsAreCommitted ==
    (job = "update_hsy_buildings_by_posno" /\ job_response.kind = "returned")
        => /\ reported.inserted = Cardinality(CommittedOps("insert"))
           /\ reported.updated = Cardinality(CommittedOps("update"))

\* C26: every row bound to the bulk INSERT and every row bound to the bulk
\* UPDATE has as many values as its statement has %s placeholders.
C26_RowsMatchPlaceholders ==
    /\ \A i \in 1..Len(insert_values) : Len(insert_values[i].values) = insert_placeholders
    /\ \A i \in 1..Len(update_values) : Len(update_values[i].values) = update_placeholders

====
